---------------------------- MODULE Spec2Model ----------------------------
(***************************************************************************)
(* Model of cargo's src/cargo/core/compiler/build_context/target_info.rs:  *)
(* flag resolution (env_args), construction of TargetInfo from the rustc   *)
(* probe output, and the file_types query with its crate-type cache.       *)
(*                                                                         *)
(* Strings are sequences of one-character strings, so that split, trim,    *)
(* starts_with, ends_with, contains and replace are computed as the code   *)
(* computes them.  An Option is a sequence of length 0 (None) or 1 (Some). *)
(***************************************************************************)
EXTENDS Integers, Sequences, FiniteSets, TLC

VARIABLES
    env,             \* process environment: variable name -> Option(string)
    config,          \* the configuration store (target.*, target.cfg(..), build.*)
    requested_kind,  \* CompileKind the session was requested for
    rtd,             \* Option(RustcTargetData): host_info / target_info
    call,            \* the operation under way or last applied, with its inputs
    ret,             \* Option(result of call)
    execs            \* crate type -> discover_crate_type processes run / completed

vars == <<env, config, requested_kind, rtd, call, ret, execs>>

-----------------------------------------------------------------------------
(* Options and generic sequence helpers *)

None == <<>>

Some(x) == <<x>>

IsSome(o) == Len(o) = 1

Unwrap(o) == o[1]

Range(s) == {s[i] : i \in 1..Len(s)}

RECURSIVE Concat(_)
\* Vec::extend over a sequence of lists
Concat(ss) ==
    IF ss = <<>> THEN <<>> ELSE Head(ss) \o Concat(Tail(ss))

\* the element of a one-element set; The({e(v) : v \in {x}}) is e with v
\* bound to the value of x, computed once
The(S) == CHOOSE v \in S : TRUE

\* all sequences over S of length 0..n
SeqsUpTo(S, n) == UNION {[1..k -> S] : k \in 0..n}

-----------------------------------------------------------------------------
(* Characters that the TLA+ lexer cannot hold in a string literal *)

BACKTICK == "BACKTICK"

DQUOTE == "DQUOTE"

TAB == "\t"

\* char::is_whitespace, restricted to the characters the model uses
WhiteSpace == {" ", TAB}

-----------------------------------------------------------------------------
(* str methods *)

starts_with(s, p) ==
    Len(p) <= Len(s) /\ SubSeq(s, 1, Len(p)) = p

ends_with(s, p) ==
    Len(p) <= Len(s) /\ SubSeq(s, Len(s) - Len(p) + 1, Len(s)) = p

contains(s, p) ==
    \E i \in 0..(Len(s) - Len(p)) : SubSeq(s, i + 1, i + Len(p)) = p

RECURSIVE trim_start(_)
trim_start(s) ==
    IF s # <<>> /\ Head(s) \in WhiteSpace THEN trim_start(Tail(s)) ELSE s

RECURSIVE trim_end(_)
trim_end(s) ==
    IF s # <<>> /\ s[Len(s)] \in WhiteSpace
    THEN trim_end(SubSeq(s, 1, Len(s) - 1))
    ELSE s

\* str::trim
trim(s) == trim_end(trim_start(s))

RECURSIVE split_char(_, _)
\* str::split(c) for a one-character pattern: n occurrences give n+1 pieces
split_char(s, c) ==
    IF \A i \in 1..Len(s) : s[i] # c
    THEN <<s>>
    ELSE LET i == CHOOSE k \in 1..Len(s) :
                      s[k] = c /\ \A j \in 1..(k - 1) : s[j] # c
         IN <<SubSeq(s, 1, i - 1)>> \o split_char(SubSeq(s, i + 1, Len(s)), c)

RECURSIVE split_str(_, _)
\* str::split(p) for a non-empty string pattern, matches taken left to right
split_str(s, p) ==
    IF ~contains(s, p)
    THEN <<s>>
    ELSE LET i == CHOOSE k \in 0..(Len(s) - Len(p)) :
                      /\ SubSeq(s, k + 1, k + Len(p)) = p
                      /\ \A j \in 0..(k - 1) : SubSeq(s, j + 1, j + Len(p)) # p
         IN <<SubSeq(s, 1, i)>> \o split_str(SubSeq(s, i + Len(p) + 1, Len(s)), p)

\* str::replace(from, to) for one-character from and to
replace_char(s, from, to) ==
    [i \in 1..Len(s) |-> IF s[i] = from THEN to ELSE s[i]]

NonEmpty(s) == s # <<>>

-----------------------------------------------------------------------------
(* CompileKind, Cfg, CfgExpr and the configuration store *)

\* CompileKind::Host
Host == [host |-> TRUE, target |-> <<>>]

\* CompileKind::Target(CompileTarget)
Target(t) == [host |-> FALSE, target |-> t]

is_host(kind) == kind.host

\* CompileTarget::short_name of a target given by its triple (not a .json path)
short_name(t) == t

\* Cfg::Name(name)
CfgName(n) == [name |-> n, value |-> None]

\* Cfg::KeyPair(name, value)
CfgKeyPair(n, v) == [name |-> n, value |-> Some(v)]

\* CfgExpr::Value(cfg)
ExprValue(c) == [neg |-> FALSE, cfg |-> c]

\* CfgExpr::Not(Value(cfg))
ExprNot(c) == [neg |-> TRUE, cfg |-> c]

\* CfgExpr::matches_key: the key's expression evaluated over the predicate list
matches_key(key, target_cfg) ==
    IF key.neg THEN key.cfg \notin Range(target_cfg)
               ELSE key.cfg \in Range(target_cfg)

\* name.chars().flat_map(|c| c.to_lowercase()).collect()
to_lowercase(name) ==
    CASE name = "RUSTFLAGS" -> "rustflags"
      [] name = "RUSTDOCFLAGS" -> "rustdocflags"
      [] OTHER -> name

\* config.get::<Option<StringList>>("target.<target>.<name>")
config_get(cfg, key) ==
    IF key \in DOMAIN cfg.target THEN cfg.target[key] ELSE None

\* env::var(name): Ok(value) when the variable is set
env_var(e, name) == e[name]

-----------------------------------------------------------------------------
(* env_args: extra flags from the environment and the configuration *)

\* mutant: the predicate filter is dropped, every section's list is added
cfg_rustflags_unfiltered(cfg, target_cfg) ==
    Concat([i \in 1..Len(cfg.target_cfgs) |->
        IF IsSome(cfg.target_cfgs[i].rustflags)
        THEN Unwrap(cfg.target_cfgs[i].rustflags)
        ELSE <<>>])

\* the filter_map / filter / for_each chain over config.target_cfgs()
cfg_rustflags(cfg, target_cfg) ==
    LET secs == cfg.target_cfgs
        pick(i) == IF IsSome(secs[i].rustflags) /\ matches_key(secs[i].key, target_cfg)
                   THEN Unwrap(secs[i].rustflags)
                   ELSE <<>>
    IN Concat([i \in 1..Len(secs) |-> pick(i)])

\* mutant: the pieces are not trimmed
env_split_untrimmed(a) == SelectSeq(split_char(a, " "), NonEmpty)

\* the environment layer: split(' '), trim, drop the empty pieces
env_split(a) ==
    LET pieces == split_char(a, " ")
    IN SelectSeq([i \in 1..Len(pieces) |-> trim(pieces[i])], NonEmpty)

\* env_args past its first check: the environment, then the configuration
env_args_layers(cfg, e, host_triple, target_cfg, kind, name) ==
    IF IsSome(env_var(e, name))
    THEN env_split(Unwrap(env_var(e, name)))
    ELSE LET lname == to_lowercase(name)
             target == IF is_host(kind) THEN host_triple ELSE short_name(kind.target)
             key == <<target, lname>>
             direct == IF IsSome(config_get(cfg, key))
                       THEN Unwrap(config_get(cfg, key))
                       ELSE <<>>
             rustflags == direct \o (IF IsSome(target_cfg)
                                     THEN cfg_rustflags(cfg, Unwrap(target_cfg))
                                     ELSE <<>>)
             list == IF lname = "rustflags" THEN cfg.build.rustflags
                                            ELSE cfg.build.rustdocflags
         IN IF rustflags # <<>>
            THEN rustflags
            ELSE IF IsSome(list) THEN Unwrap(list) ELSE <<>>

\* mutant: the host's flags are resolved also when a target was requested
env_args_unguarded(cfg, e, requested, host_triple, target_cfg, kind, name) ==
    env_args_layers(cfg, e, host_triple, target_cfg, kind, name)

\* env_args: nothing for the host when a target was requested
env_args(cfg, e, requested, host_triple, target_cfg, kind, name) ==
    IF ~is_host(requested) /\ is_host(kind)
    THEN <<>>
    ELSE env_args_layers(cfg, e, host_triple, target_cfg, kind, name)

-----------------------------------------------------------------------------
(* Bounded inputs of flag resolution *)

MaxEnvLen == 3

MaxSections == 2

Names == {"RUSTFLAGS", "RUSTDOCFLAGS"}

LowerNames == {"rustflags", "rustdocflags"}

HostTriple == <<"H">>

OtherTriple == <<"T">>

ShortNames == {HostTriple, OtherTriple}

\* host only; a target named like the host; another target
RequestedKinds == {Host, Target(HostTriple), Target(OtherTriple)}

\* (requested_kind, kind) as RustcTargetData::new pairs them
KindPairs == {<<r, k>> \in RequestedKinds \X RequestedKinds : k = Host \/ k = r}

str_example == <<"-", "C", " ", "a", " ", "-", "C", " ", "b">>

EnvAlphabet == {" ", TAB, "a"}

EnvStrings == SeqsUpTo(EnvAlphabet, MaxEnvLen) \cup {str_example}

RichEnvs ==
    {[n \in Names |-> IF n = m THEN v ELSE w] :
        m \in Names,
        v \in {None} \cup {Some(s) : s \in EnvStrings},
        w \in {None, Some(<<"b">>)}}

NoEnv == [n \in Names |-> None]

cfg_unix == CfgName(<<"u", "n", "i", "x">>)

cfg_windows == CfgName(<<"w", "i", "n", "d", "o", "w", "s">>)

CfgExprs == {ExprValue(cfg_unix), ExprNot(cfg_windows)}

TargetCfgs == {None, Some(<<>>), Some(<<cfg_unix>>), Some(<<cfg_windows>>)}

\* one distinct flag per place of the configuration, so a result names its source
PlatFlag(t, n) == <<"-", "t">> \o t \o (IF n = "rustflags" THEN <<"r">> ELSE <<"d">>)

SecFlag(key, n) ==
    <<"-", "c">> \o (IF key.neg THEN <<"!">> ELSE <<>>) \o <<key.cfg.name[1]>>
        \o (IF n = "rustflags" THEN <<"r">> ELSE <<"d">>)

BuildFlag(n) == <<"-", "b">> \o (IF n = "rustflags" THEN <<"r">> ELSE <<"d">>)

PlatTables ==
    {[k \in ShortNames \X LowerNames |->
        CASE p[k] = 0 -> None
          [] p[k] = 1 -> Some(<<>>)
          [] OTHER -> Some(<<PlatFlag(k[1], k[2])>>)] :
        p \in [ShortNames \X LowerNames -> 0..2]}

Sections ==
    {[key |-> x,
      rustflags |-> IF r THEN Some(<<SecFlag(x, "rustflags")>>) ELSE None,
      rustdocflags |-> IF d THEN Some(<<SecFlag(x, "rustdocflags")>>) ELSE None] :
        x \in CfgExprs, r \in BOOLEAN, d \in BOOLEAN}

BuildTables ==
    {[n \in LowerNames |->
        CASE p[n] = 0 -> None
          [] p[n] = 1 -> Some(<<>>)
          [] OTHER -> Some(<<BuildFlag(n)>>)] :
        p \in [LowerNames -> 0..2]}

AllPlat(v) == [k \in ShortNames \X LowerNames |-> IF v THEN Some(<<PlatFlag(k[1], k[2])>>) ELSE None]

AllBuild(v) == [n \in LowerNames |-> IF v THEN Some(<<BuildFlag(n)>>) ELSE None]

FullSections ==
    <<[key |-> ExprValue(cfg_unix),
       rustflags |-> Some(<<SecFlag(ExprValue(cfg_unix), "rustflags")>>),
       rustdocflags |-> Some(<<SecFlag(ExprValue(cfg_unix), "rustdocflags")>>)],
      [key |-> ExprNot(cfg_windows),
       rustflags |-> Some(<<SecFlag(ExprNot(cfg_windows), "rustflags")>>),
       rustdocflags |-> Some(<<SecFlag(ExprNot(cfg_windows), "rustdocflags")>>)]>>

MkConfig(t, s, b) == [target |-> t, target_cfgs |-> s, build |-> b]

EmptyConfig == MkConfig(AllPlat(FALSE), <<>>, AllBuild(FALSE))

FullConfig == MkConfig(AllPlat(TRUE), FullSections, AllBuild(TRUE))

\* every per-platform and build table, with no or with both predicate sections
TableConfigs ==
    {MkConfig(t, s, b) : t \in PlatTables, s \in {<<>>, FullSections}, b \in BuildTables}

\* every list of predicate sections, with empty or full tables around it
SectionConfigs ==
    {MkConfig(AllPlat(t), s, AllBuild(b)) :
        t \in BOOLEAN, s \in SeqsUpTo(Sections, MaxSections), b \in BOOLEAN}

EnvArgsCalls ==
    {[op |-> "env_args", requested_kind |-> p[1], kind |-> p[2],
      target_cfg |-> c, name |-> n] :
        p \in KindPairs, c \in TargetCfgs, n \in Names}

-----------------------------------------------------------------------------
(* Flag resolution as a function of its inputs *)

NoRtd == None

NoExecs == <<>>

FlagsInit ==
    /\ call \in EnvArgsCalls
    /\ requested_kind = call.requested_kind
    /\ \/ env \in RichEnvs /\ config \in {EmptyConfig, FullConfig}
       \/ env = NoEnv /\ config \in TableConfigs \cup SectionConfigs
    /\ rtd = NoRtd
    /\ ret = None
    /\ execs = NoExecs

EnvArgs ==
    /\ call.op = "env_args"
    /\ ret = None
    /\ ret' = Some(env_args(config, env, call.requested_kind, HostTriple,
                            call.target_cfg, call.kind, call.name))
    /\ UNCHANGED <<env, config, requested_kind, rtd, call, execs>>

FlagsNext == EnvArgs

SpecFlags == FlagsInit /\ [][FlagsNext]_vars

-----------------------------------------------------------------------------
(* Flag resolution: properties *)

\* the call's result is there, and the cross-compilation guard did not apply
Resolved ==
    /\ call.op = "env_args"
    /\ ret # None
    /\ ~(~is_host(call.requested_kind) /\ is_host(call.kind))

\* the maximal runs <<i, j>> of s that hold no occurrence of c
RunsOf(s, c) ==
    {q \in (1..Len(s)) \X (1..Len(s)) :
        /\ q[1] <= q[2]
        /\ \A k \in q[1]..q[2] : s[k] # c
        /\ (q[1] = 1 \/ s[q[1] - 1] = c)
        /\ (q[2] = Len(s) \/ s[q[2] + 1] = c)}

\* a set of disjoint runs, as the sequence ordered by position
InOrder(R) ==
    [k \in 1..Cardinality(R) |->
        CHOOSE q \in R : Cardinality({p \in R : p[1] < q[1]}) = k - 1]

\* the non-empty pieces of s between spaces, in order
SpacePieces(s) ==
    LET runs == InOrder(RunsOf(s, " "))
    IN [k \in 1..Len(runs) |-> SubSeq(s, runs[k][1], runs[k][2])]

\* the pieces of s between spaces with the whitespace around each removed,
\* those that hold only whitespace left out
TrimmedPieces(s) ==
    LET solid(q) == {k \in q[1]..q[2] : s[k] \notin WhiteSpace}
        lo(q) == CHOOSE k \in solid(q) : \A m \in solid(q) : k <= m
        hi(q) == CHOOSE k \in solid(q) : \A m \in solid(q) : k >= m
        runs == InOrder({q \in RunsOf(s, " ") : solid(q) # {}})
    IN [k \in 1..Len(runs) |-> SubSeq(s, lo(runs[k]), hi(runs[k]))]

\* C1 as stated: with the guard not applying and the family's variable set to
\* s, the result is exactly the non-empty pieces of s between spaces, in
\* order, whatever the configuration holds.
C1_EnvPiecesUntrimmed ==
    (Resolved /\ IsSome(env[call.name]))
        => Unwrap(ret) = SpacePieces(Unwrap(env[call.name]))

\* C1 amended: with the guard not applying and the family's variable set to
\* s, the result is exactly the pieces of s between spaces, each with its
\* leading and trailing whitespace trimmed, the pieces left empty by the trim
\* dropped, in order; no configuration layer contributes.
C1_EnvPiecesTrimmed ==
    (Resolved /\ IsSome(env[call.name]))
        => Unwrap(ret) = TrimmedPieces(Unwrap(env[call.name]))

\* C1 witness: "-C a -C b" resolved against a configuration that sets every layer
C1_Witness ==
    /\ Resolved
    /\ env[call.name] = Some(str_example)
    /\ config = FullConfig
    /\ Unwrap(ret) = <<<<"-", "C">>, <<"a">>, <<"-", "C">>, <<"b">>>>

\* the lists of the predicate sections that flag resolution adds: the
\* sections with a flag list whose expression matches, in configuration order
MatchingSectionLists(cfg, target_cfg) ==
    LET hit(sec) == IsSome(sec.rustflags) /\ matches_key(sec.key, target_cfg)
        hits == SelectSeq(cfg.target_cfgs, hit)
    IN Concat([i \in 1..Len(hits) |-> Unwrap(hits[i].rustflags)])

\* C3: with the guard not applying and the variable unset, C is the
\* per-platform list followed (only when a predicate list is supplied) by the
\* lists of the matching predicate sections in configuration order; the
\* result is C when C is non-empty, else the global build list, else empty.
C3_ConfigLayers ==
    (Resolved /\ env[call.name] = None) =>
        LET fam == to_lowercase(call.name)
            plat == IF is_host(call.kind) THEN HostTriple ELSE call.kind.target
            own == config.target[<<plat, fam>>]
            C == (IF IsSome(own) THEN Unwrap(own) ELSE <<>>)
                   \o (IF IsSome(call.target_cfg)
                       THEN MatchingSectionLists(config, Unwrap(call.target_cfg))
                       ELSE <<>>)
            global == config.build[fam]
        IN Unwrap(ret) = (IF C # <<>> THEN C
                          ELSE IF IsSome(global) THEN Unwrap(global) ELSE <<>>)

\* C3 witness: per-platform flag, then two matching sections, global set and unused
C3_Witness ==
    /\ Resolved
    /\ env[call.name] = None
    /\ call.target_cfg = Some(<<cfg_unix>>)
    /\ Len(Unwrap(ret)) = 3
    /\ config.build[to_lowercase(call.name)] = Some(<<BuildFlag(to_lowercase(call.name))>>)
    /\ BuildFlag(to_lowercase(call.name)) \notin Range(Unwrap(ret))

\* the configuration with every predicate section's list of the other family removed
WithoutOtherFamily(cfg, name) ==
    [cfg EXCEPT !.target_cfgs =
        [i \in 1..Len(cfg.target_cfgs) |->
            IF name = "RUSTFLAGS"
            THEN [cfg.target_cfgs[i] EXCEPT !.rustdocflags = None]
            ELSE [cfg.target_cfgs[i] EXCEPT !.rustflags = None]]]

\* C4: the predicate-scoped entries added for a family are those configured
\* under that family: removing the other family's predicate-scoped entries
\* from the configuration does not change the result.
C4_FamilyScoping ==
    (Resolved /\ env[call.name] = None) =>
        Unwrap(ret) = env_args(WithoutOtherFamily(config, call.name), env,
                               call.requested_kind, HostTriple,
                               call.target_cfg, call.kind, call.name)

-----------------------------------------------------------------------------
(* Results, processes and probe output *)

\* CargoResult: Ok(v) / Err(e)
Ok(v) == [ok |-> TRUE, val |-> Some(v), err |-> None]

Err(e) == [ok |-> FALSE, val |-> None, err |-> Some(e)]

s_dash == <<"-">>

s_crate_name == <<"-", "-", "c", "r", "a", "t", "e", "-", "n", "a", "m", "e">>

s_delim == <<"_", "_", "_">>

s_print_file_names == <<"-", "-", "p", "r", "i", "n", "t", "=", "f", "i", "l", "e", "-", "n", "a", "m", "e", "s">>

s_target == <<"-", "-", "t", "a", "r", "g", "e", "t">>

s_crate_type == <<"-", "-", "c", "r", "a", "t", "e", "-", "t", "y", "p", "e">>

s_print_sysroot == <<"-", "-", "p", "r", "i", "n", "t", "=", "s", "y", "s", "r", "o", "o", "t">>

s_print_cfg == <<"-", "-", "p", "r", "i", "n", "t", "=", "c", "f", "g">>

s_bin == <<"b", "i", "n">>

s_rlib == <<"r", "l", "i", "b">>

s_dylib == <<"d", "y", "l", "i", "b">>

s_cdylib == <<"c", "d", "y", "l", "i", "b">>

s_staticlib == <<"s", "t", "a", "t", "i", "c", "l", "i", "b">>

s_proc_macro_type == <<"p", "r", "o", "c", "-", "m", "a", "c", "r", "o">>

s_unsupported == <<"u", "n", "s", "u", "p", "p", "o", "r", "t", "e", "d", " ", "c", "r", "a", "t", "e", " ", "t", "y", "p", "e">>

s_unknown == <<"u", "n", "k", "n", "o", "w", "n", " ", "c", "r", "a", "t", "e", " ", "t", "y", "p", "e">>

s_crate_type_sp == <<"c", "r", "a", "t", "e", " ", "t", "y", "p", "e", " ">>

s_proc_macro == <<"p", "r", "o", "c", "_", "m", "a", "c", "r", "o">>

s_lib == <<"l", "i", "b">>

s_rustlib == <<"r", "u", "s", "t", "l", "i", "b">>

KNOWN_CRATE_TYPES == <<s_bin, s_rlib, s_dylib, s_cdylib, s_staticlib, s_proc_macro_type>>

\* cfg!(windows) of the build of cargo itself
BuiltForWindows == FALSE

\* str::lines: pieces between line feeds, a final empty piece left out, a
\* carriage return at the end of a piece removed
lines(s) ==
    LET p == split_char(s, "\n")
        q == IF p[Len(p)] = <<>> THEN SubSeq(p, 1, Len(p) - 1) ELSE p
    IN [i \in 1..Len(q) |->
          IF q[i] # <<>> /\ q[i][Len(q[i])] = "\r"
          THEN SubSeq(q[i], 1, Len(q[i]) - 1)
          ELSE q[i]]

\* the text whose lines are ls, each ended by a line feed
Unlines(ls) == Concat([i \in 1..Len(ls) |-> ls[i] \o <<"\n">>])

\* output_err_info: the command, and stdout and stderr when not empty
output_err_info(cmd, stdout, stderr) ==
    [cmd |-> Some(cmd),
     stdout |-> IF stdout # <<>> THEN Some(stdout) ELSE None,
     stderr |-> IF stderr # <<>> THEN Some(stderr) ELSE None,
     no_output |-> stdout = <<>> /\ stderr = <<>>]

\* an error message: what failed, followed by the text of info
Bail(what, info) ==
    [what |-> what, cmd |-> info.cmd, stdout |-> info.stdout,
     stderr |-> info.stderr, no_output |-> info.no_output]

\* an error message that carries no output_err_info
NoInfo == [cmd |-> None, stdout |-> None, stderr |-> None, no_output |-> FALSE]

\* mutant: the name of the crate type is looked for without the quote before it
not_supported_suffix(crate_type, errs) ==
    \E i \in 1..Len(errs) :
        /\ contains(errs[i], s_unsupported) \/ contains(errs[i], s_unknown)
        /\ contains(errs[i], crate_type \o <<BACKTICK>>)

\* whether a line of stderr reports crate_type as unsupported or unknown
not_supported(crate_type, errs) ==
    \E i \in 1..Len(errs) :
        /\ contains(errs[i], s_unsupported) \/ contains(errs[i], s_unknown)
        /\ contains(errs[i], s_crate_type_sp \o <<BACKTICK>> \o crate_type \o <<BACKTICK>>)

\* parse_crate_type: the result for crate_type and the cursor left over ls
parse_crate_type(crate_type, cmd, output, error, ls) ==
    IF The({not_supported(crate_type, errs) : errs \in {lines(error)}})
    THEN [res |-> Ok(None), lines |-> ls]
    ELSE IF ls = <<>>
    THEN [res |-> Err(Bail("malformed output when learning about crate-type information",
                           output_err_info(cmd, output, error))),
          lines |-> ls]
    ELSE The({IF Len(parts) < 2
              THEN [res |-> Err(Bail("output of --print=file-names has changed in the compiler, cannot parse",
                                     output_err_info(cmd, output, error))),
                    lines |-> Tail(ls)]
              ELSE [res |-> Ok(Some(<<parts[1], parts[2]>>)), lines |-> Tail(ls)] :
                parts \in {split_str(trim(Head(ls)), s_delim)}})

-----------------------------------------------------------------------------
(* Cfg::from_str of cargo-platform: name, or name = "value" *)

Letters ==
    {"a", "b", "c", "d", "e", "f", "g", "h", "i", "j", "k", "l", "m",
     "n", "o", "p", "q", "r", "s", "t", "u", "v", "w", "x", "y", "z"}

IdentStart == Letters \cup {"_"}

IdentRest == IdentStart \cup {"0", "1", "2", "3", "4", "5", "6", "7", "8", "9"}

RECURSIVE skip_spaces(_)
skip_spaces(s) ==
    IF s # <<>> /\ Head(s) = " " THEN skip_spaces(Tail(s)) ELSE s

\* the length of the longest prefix of s made of characters of S
RECURSIVE prefix_len(_, _)
prefix_len(s, S) ==
    IF s # <<>> /\ Head(s) \in S THEN 1 + prefix_len(Tail(s), S) ELSE 0

Cfg_from_str(line) ==
    LET s0 == skip_spaces(line)
        n == IF s0 # <<>> /\ Head(s0) \in IdentStart THEN prefix_len(s0, IdentRest) ELSE 0
        ident == SubSeq(s0, 1, n)
        s1 == skip_spaces(SubSeq(s0, n + 1, Len(s0)))
        s2 == skip_spaces(Tail(s1))
        body == Tail(s2)
        m == prefix_len(body, {body[i] : i \in 1..Len(body)} \ {DQUOTE})
        s3 == skip_spaces(SubSeq(body, m + 2, Len(body)))
    IN IF n = 0 THEN Err("cfg")
       ELSE IF s1 = <<>> THEN Ok(CfgName(ident))
       ELSE IF Head(s1) # "=" THEN Err("cfg")
       ELSE IF s2 = <<>> \/ Head(s2) # DQUOTE THEN Err("cfg")
       ELSE IF m = Len(body) THEN Err("cfg")
       ELSE IF s3 # <<>> THEN Err("cfg")
       ELSE Ok(CfgKeyPair(ident, SubSeq(body, 1, m)))

-----------------------------------------------------------------------------
(* TargetInfo::new and RustcTargetData::new *)

\* mutant: every bare-name predicate is filtered out
not_user_specific_cfg_all_names(cfg) ==
    ~(cfg.ok /\ Unwrap(cfg.val).value = None)

not_user_specific_cfg(cfg) ==
    IF cfg.ok /\ Unwrap(cfg.val).value = None
    THEN Unwrap(cfg.val).name # s_proc_macro
    ELSE TRUE

RECURSIVE parse_known(_, _, _, _, _, _)
\* the loop over KNOWN_CRATE_TYPES: one cursor, the map built so far
parse_known(types, cmd, output, error, ls, map) ==
    IF types = <<>>
    THEN [res |-> Ok(map), lines |-> ls]
    ELSE The({IF ~out.res.ok
              THEN [res |-> out.res, lines |-> out.lines]
              ELSE The({parse_known(Tail(types), cmd, output, error, out.lines, m) :
                          m \in {map @@ (Head(types) :> Unwrap(out.res.val))}}) :
                out \in {parse_crate_type(Head(types), cmd, output, error, ls)}})

\* the empty HashMap
EmptyMap == [x \in {} |-> None]

\* lines.map(Cfg::from_str).filter(not_user_specific_cfg).collect::<CargoResult<Vec<_>>>()
collect_cfg(ls, output) ==
    The({IF \E i \in 1..Len(kept) : ~kept[i].ok
         THEN Err([what |-> "failed to parse the cfg from rustc --print=cfg, got:",
                   cmd |-> None, stdout |-> Some(output), stderr |-> None,
                   no_output |-> FALSE])
         ELSE Ok([i \in 1..Len(kept) |-> Unwrap(kept[i].val)]) :
            kept \in {SelectSeq([i \in 1..Len(ls) |-> Cfg_from_str(ls[i])],
                                not_user_specific_cfg)}})

\* the arguments of the probe before the crate types are added
probe_template(rustflags, kind) ==
    <<s_dash, s_crate_name, s_delim, s_print_file_names>> \o rustflags
        \o (IF is_host(kind) THEN <<>> ELSE <<s_target, kind.target>>)

\* the arguments of the batch probe
probe_process(template) ==
    template
        \o Concat([i \in 1..Len(KNOWN_CRATE_TYPES) |-> <<s_crate_type, KNOWN_CRATE_TYPES[i]>>])
        \o <<s_print_sysroot, s_print_cfg>>

\* the TargetInfo built from the parsed probe output
new_info(cfg, e, requested, rustc_host, kind, probe, crate_type_process, map, sysroot, cfgs) ==
    [crate_type_process |-> crate_type_process,
     crate_types |-> map,
     cfg |-> cfgs,
     sysroot |-> sysroot,
     sysroot_host_libdir |->
         sysroot \o (IF BuiltForWindows THEN <<s_bin>> ELSE <<s_lib>>),
     sysroot_target_libdir |->
         sysroot \o <<s_lib, s_rustlib,
                      IF is_host(kind) THEN rustc_host ELSE short_name(kind.target),
                      s_lib>>,
     rustflags |-> env_args(cfg, e, requested, rustc_host, Some(cfgs), kind, "RUSTFLAGS"),
     rustdocflags |-> env_args(cfg, e, requested, rustc_host, Some(cfgs), kind, "RUSTDOCFLAGS"),
     supports_bitcode_in_rlib |->
         IF is_host(kind) THEN Some(probe.bitcode_ok) ELSE None]

\* the part of TargetInfo::new after the batch probe has run: the naming
\* lines, the sysroot line, the cfg lines
new_parse(cfg, e, requested, rustc_host, kind, probe, crate_type_process, process) ==
    The({IF ~known.res.ok
         THEN known.res
         ELSE IF known.lines = <<>>
         THEN Err(Bail("output of --print=sysroot missing when learning about target-specific information from rustc",
                       output_err_info(process, probe.stdout, probe.stderr)))
         ELSE The({IF ~parsed.ok
                   THEN parsed
                   ELSE Ok(new_info(cfg, e, requested, rustc_host, kind, probe,
                                    crate_type_process, Unwrap(known.res.val),
                                    <<Head(known.lines)>>, Unwrap(parsed.val))) :
                     parsed \in {collect_cfg(Tail(known.lines), probe.stdout)}}) :
            known \in {parse_known(KNOWN_CRATE_TYPES, process, probe.stdout, probe.stderr,
                                   lines(probe.stdout), EmptyMap)}})

\* probe: [bitcode_ok, ok, stdout, stderr], what the two rustc runs give
TargetInfo_new(cfg, e, requested, rustc_host, kind, probe) ==
    IF ~probe.ok
    THEN Err(Bail("failed to run rustc to learn about target-specific information", NoInfo))
    ELSE The({The({new_parse(cfg, e, requested, rustc_host, kind, probe,
                             crate_type_process, process) :
                     process \in {probe_process(crate_type_process)}}) :
                crate_type_process \in
                    {probe_template(env_args(cfg, e, requested, rustc_host, None,
                                             kind, "RUSTFLAGS"), kind)}})

\* probes: [host, target], the probe results of the two constructions
RustcTargetData_new(cfg, e, requested, rustc_host, probes) ==
    The({IF ~host_info.ok
         THEN host_info
         ELSE IF is_host(requested)
         THEN Ok([host_info |-> Unwrap(host_info.val), target_info |-> None])
         ELSE The({IF ~target_info.ok
                   THEN target_info
                   ELSE Ok([host_info |-> Unwrap(host_info.val),
                            target_info |-> Some(Unwrap(target_info.val))]) :
                     target_info \in {TargetInfo_new(cfg, e, requested, rustc_host,
                                                     requested, probes.target)}}) :
            host_info \in {TargetInfo_new(cfg, e, requested, rustc_host, Host, probes.host)}})

\* RustcTargetData::info
RustcTargetData_info(data, kind) ==
    IF is_host(kind) THEN data.host_info ELSE Unwrap(data.target_info)

\* RustcTargetData::cfg
RustcTargetData_cfg(data, kind) == RustcTargetData_info(data, kind).cfg

\* RustcTargetData::short_name
RustcTargetData_short_name(rustc_host, kind) ==
    IF is_host(kind) THEN rustc_host ELSE short_name(kind.target)

\* Platform::Name(name)
PlatformName(n) == [is_name |-> TRUE, name |-> n, expr |-> ExprValue(CfgName(<<>>))]

\* Platform::Cfg(expr)
PlatformCfg(x) == [is_name |-> FALSE, name |-> <<>>, expr |-> x]

\* Platform::matches
Platform_matches(p, name, cfg) ==
    IF p.is_name THEN p.name = name ELSE matches_key(p.expr, cfg)

\* platform: Option(Platform), the dependency's platform
dep_platform_activated(data, rustc_host, platform, kind) ==
    IF platform = None
    THEN TRUE
    ELSE Platform_matches(Unwrap(platform), RustcTargetData_short_name(rustc_host, kind),
                          RustcTargetData_cfg(data, kind))

-----------------------------------------------------------------------------
(* FileType, TargetInfo::file_types and discover_crate_type *)

s_dll == <<".", "d", "l", "l">>

s_dll_lib == <<".", "d", "l", "l", ".", "l", "i", "b">>

s_js == <<".", "j", "s">>

s_wasm == <<".", "w", "a", "s", "m">>

s_dSYM == <<".", "d", "S", "Y", "M">>

s_pdb == <<".", "p", "d", "b">>

s_windows_msvc == <<"-", "w", "i", "n", "d", "o", "w", "s", "-", "m", "s", "v", "c">>

s_wasm32 == <<"w", "a", "s", "m", "3", "2", "-">>

s_apple == <<"-", "a", "p", "p", "l", "e", "-">>

s_msvc == <<"-", "m", "s", "v", "c">>

\* FileFlavor
FileFlavors == {"Normal", "Auxiliary", "Linkable{rmeta:false}", "Linkable{rmeta:true}", "DebugInfo"}

\* TargetKind, as far as file_types tells the kinds apart
TargetKinds == {"Bin", "ExampleBin", "Test", "Lib"}

FileType(flavor, suffix, prefix, should_replace_hyphens) ==
    [flavor |-> flavor, suffix |-> suffix, prefix |-> prefix,
     should_replace_hyphens |-> should_replace_hyphens]

\* mutant: the hyphens of the whole file name are replaced
filename_replace_all(ft, stem) ==
    IF ft.should_replace_hyphens
    THEN replace_char(ft.prefix \o stem \o ft.suffix, "-", "_")
    ELSE ft.prefix \o stem \o ft.suffix

\* FileType::filename
filename(ft, stem) ==
    ft.prefix \o (IF ft.should_replace_hyphens
                  THEN replace_char(stem, "-", "_")
                  ELSE stem) \o ft.suffix

\* exec: [ok, stdout, stderr], what running the process gives
discover_crate_type(crate_type_process, crate_type, exec) ==
    LET process == crate_type_process \o <<s_crate_type, crate_type>>
    IN IF ~exec.ok
       THEN Err(Bail("failed to run rustc to learn about crate-type information", NoInfo))
       ELSE parse_crate_type(crate_type, process, exec.stdout, exec.stderr,
                             lines(exec.stdout)).res

\* mutant: the import library is added for the crate type dylib alone
import_lib_dylib_only(prefix, suffix, crate_type, target_triple) ==
    IF /\ ends_with(target_triple, s_windows_msvc)
       /\ crate_type = s_dylib
       /\ suffix = s_dll
    THEN <<FileType("Normal", s_dll_lib, prefix, FALSE)>>
    ELSE <<>>

\* rust-lang/cargo#4500: the import library beside a Windows DLL
import_lib(prefix, suffix, crate_type, target_triple) ==
    IF /\ ends_with(target_triple, s_windows_msvc)
       /\ ends_with(crate_type, s_dylib)
       /\ suffix = s_dll
    THEN <<FileType("Normal", s_dll_lib, prefix, FALSE)>>
    ELSE <<>>

\* rust-lang/cargo#4535: the .wasm file beside the .js of a wasm binary
wasm_file(prefix, suffix, crate_type, target_triple) ==
    IF starts_with(target_triple, s_wasm32) /\ crate_type = s_bin /\ suffix = s_js
    THEN <<FileType("Auxiliary", s_wasm, prefix, TRUE)>>
    ELSE <<>>

\* mutant: debug info is uplifted for tests as for binaries
debuginfo_also_tests(prefix, kind, target_triple) ==
    LET is_apple == contains(target_triple, s_apple)
    IN IF kind \in {"Bin", "Test"} \/ (kind = "ExampleBin" /\ is_apple)
       THEN IF is_apple
            THEN <<FileType("DebugInfo", s_dSYM, prefix, FALSE)>>
            ELSE IF ends_with(target_triple, s_msvc)
            THEN <<FileType("DebugInfo", s_pdb, prefix, TRUE)>>
            ELSE <<>>
       ELSE <<>>

\* rust-lang/cargo#4490, #4960: the debug info uplifted with a binary
debuginfo(prefix, kind, target_triple) ==
    LET is_apple == contains(target_triple, s_apple)
    IN IF kind = "Bin" \/ (kind = "ExampleBin" /\ is_apple)
       THEN IF is_apple
            THEN <<FileType("DebugInfo", s_dSYM, prefix, FALSE)>>
            ELSE IF ends_with(target_triple, s_msvc)
            THEN <<FileType("DebugInfo", s_pdb, prefix, TRUE)>>
            ELSE <<>>
       ELSE <<>>

\* mutant: a discovery that fails leaves 'not supported' in the cache
cache_entry_memoize_failure(info, crate_type, exec) ==
    IF crate_type \in DOMAIN info.crate_types
    THEN [res |-> Ok(info.crate_types[crate_type]), crate_types |-> info.crate_types,
          ran |-> FALSE]
    ELSE The({[res |-> value,
               crate_types |-> info.crate_types @@
                   (crate_type :> (IF value.ok THEN Unwrap(value.val) ELSE None)),
               ran |-> TRUE] :
                value \in {discover_crate_type(info.crate_type_process, crate_type, exec)}})

\* mutant: a vacant entry is looked up and discovered, and never inserted
cache_entry_no_insert(info, crate_type, exec) ==
    IF crate_type \in DOMAIN info.crate_types
    THEN [res |-> Ok(info.crate_types[crate_type]), crate_types |-> info.crate_types,
          ran |-> FALSE]
    ELSE [res |-> discover_crate_type(info.crate_type_process, crate_type, exec),
          crate_types |-> info.crate_types, ran |-> TRUE]

\* crate_types.entry(crate_type): the occupied entry, or the vacant one
\* filled by discover_crate_type when that succeeds
cache_entry(info, crate_type, exec) ==
    IF crate_type \in DOMAIN info.crate_types
    THEN [res |-> Ok(info.crate_types[crate_type]), crate_types |-> info.crate_types,
          ran |-> FALSE]
    ELSE The({IF ~value.ok
              THEN [res |-> value, crate_types |-> info.crate_types, ran |-> TRUE]
              ELSE [res |-> value,
                    crate_types |-> info.crate_types @@ (crate_type :> Unwrap(value.val)),
                    ran |-> TRUE] :
                value \in {discover_crate_type(info.crate_type_process, crate_type, exec)}})

\* the files of a supported crate type: the primary file, then the
\* platform-specific ones in their fixed order
file_plan(prefix, suffix, crate_type, flavor, kind, target_triple) ==
    <<FileType(flavor, suffix, prefix, FALSE)>>
        \o import_lib(prefix, suffix, crate_type, target_triple)
        \o wasm_file(prefix, suffix, crate_type, target_triple)
        \o debuginfo(prefix, kind, target_triple)

\* TargetInfo::file_types: the result, the cache after the call, and
\* whether the call ran rustc
file_types(info, crate_type, flavor, kind, target_triple, exec) ==
    The({[res |-> IF ~entry.res.ok THEN entry.res
                  ELSE IF Unwrap(entry.res.val) = None THEN Ok(None)
                  ELSE Ok(Some(file_plan(Unwrap(Unwrap(entry.res.val))[1],
                                         Unwrap(Unwrap(entry.res.val))[2],
                                         crate_type, flavor, kind, target_triple))),
          crate_types |-> entry.crate_types,
          ran |-> entry.ran] :
            entry \in {cache_entry(info, crate_type, exec)}})

-----------------------------------------------------------------------------
(* What rustc may print: bounded probe results *)

MaxCfgLines == 2

MaxTripleParts == 3

MaxExecs == 2

s_debug_assertions == <<"d", "e", "b", "u", "g", "_", "a", "s", "s", "e", "r", "t", "i", "o", "n", "s">>

s_my_app == <<"m", "y", "-", "a", "p", "p">>

KnownTypes == Range(KNOWN_CRATE_TYPES)

\* a line of --print=file-names for the crate name ___
NamingLine(prefix, suffix) == prefix \o s_delim \o suffix

\* rustc's warning for a crate type the target does not support
UnsupportedLine(crate_type) ==
    <<"d", "r", "o", "p", " ">> \o s_unsupported \o <<" ", BACKTICK>> \o crate_type
        \o <<BACKTICK>>

\* the (prefix, suffix) pairs rustc answers with
NamePairs ==
    {<<<<>>, <<>>>>, <<<<>>, s_dll>>, <<s_lib, s_dll>>, <<<<>>, s_js>>, <<<<"a", "-">>, s_js>>}

\* naming tables: every known crate type unsupported, or named by one pair
Tables == {[ct \in KnownTypes |-> v] : v \in {None} \cup {Some(q) : q \in NamePairs}}

\* the known crate types a table supports, in request order
Supported(table) == SelectSeq(KNOWN_CRATE_TYPES, LAMBDA ct : table[ct] # None)

NamingLines(table) ==
    [i \in 1..Len(Supported(table)) |->
        NamingLine(Unwrap(table[Supported(table)[i]])[1], Unwrap(table[Supported(table)[i]])[2])]

UnsupportedLines(table) ==
    LET un == SelectSeq(KNOWN_CRATE_TYPES, LAMBDA ct : table[ct] = None)
    IN [i \in 1..Len(un) |-> UnsupportedLine(un[i])]

s_sysroot == <<"/", "r">>

\* predicate lines: three bare names, a key pair named proc_macro, and a
\* line that is neither a name nor name="value"
CfgLines ==
    {cfg_unix.name, s_proc_macro, s_debug_assertions,
     s_proc_macro \o <<"=", DQUOTE, "x", DQUOTE>>,
     <<"a", "=", "b">>}

\* a well-formed probe result for a naming table and predicate lines
GoodProbe(table, cfg_lines) ==
    [bitcode_ok |-> TRUE, ok |-> TRUE,
     stdout |-> Unlines(NamingLines(table) \o <<s_sysroot>> \o cfg_lines),
     stderr |-> Unlines(UnsupportedLines(table))]

FailedProbe == [bitcode_ok |-> FALSE, ok |-> FALSE, stdout |-> <<>>, stderr |-> <<>>]

\* the tables with no, some and only unsupported crate types
MixedTable(un) == [ct \in KnownTypes |-> IF ct \in un THEN None ELSE Some(<<s_lib, s_dll>>)]

\* a table that names every supported crate type differently
DistinctTable(un) ==
    [ct \in KnownTypes |-> IF ct \in un THEN None ELSE Some(<<s_lib, <<".">> \o ct>>)]

ProbeTables ==
    {MixedTable(un) : un \in {{}, {s_dylib}, {s_cdylib}, {s_dylib, s_proc_macro_type}, KnownTypes}}
        \cup {DistinctTable(un) : un \in {{}, {s_dylib}, {s_cdylib}, {s_bin, s_staticlib}}}

\* stdout cut after its first k lines
CutLines(ls, k) == SubSeq(ls, 1, k)

\* line j of ls without its delimiter
Undelimited(ls, j) == [i \in 1..Len(ls) |-> IF i = j THEN s_lib ELSE ls[i]]

\* well-formed and damaged probe results
RichProbes ==
    LET full(tb, cl) == NamingLines(tb) \o <<s_sysroot>> \o cl
        outs(tb, cl) ==
            {full(tb, cl)}
                \cup {CutLines(full(tb, cl), k) : k \in 0..Len(NamingLines(tb))}
                \cup {Undelimited(full(tb, cl), j) : j \in 1..Len(NamingLines(tb))}
        of(tb) == UNION {outs(tb, cl) : cl \in SeqsUpTo(CfgLines, MaxCfgLines)}
    IN UNION {{[bitcode_ok |-> TRUE, ok |-> TRUE, stdout |-> Unlines(o),
                stderr |-> Unlines(UnsupportedLines(tb))] : o \in of(tb)} :
                    tb \in ProbeTables}
       \cup {FailedProbe}

FewProbes ==
    {GoodProbe(MixedTable({}), <<cfg_unix.name, s_proc_macro>>),
     [GoodProbe(MixedTable({s_dylib}), <<cfg_windows.name>>) EXCEPT !.bitcode_ok = FALSE],
     GoodProbe(MixedTable({}), <<>>)}

\* the results of running discover_crate_type's process for crate_type
ExecOutcomes(crate_type) ==
    {[ok |-> FALSE, stdout |-> <<>>, stderr |-> <<>>],
     [ok |-> TRUE, stdout |-> <<>>, stderr |-> <<>>],
     [ok |-> TRUE, stdout |-> Unlines(<<s_lib>>), stderr |-> <<>>],
     [ok |-> TRUE, stdout |-> <<>>, stderr |-> Unlines(<<UnsupportedLine(crate_type)>>)]}
    \cup {[ok |-> TRUE, stdout |-> Unlines(<<NamingLine(q[1], q[2])>>), stderr |-> <<>>] :
            q \in {<<<<>>, s_dll>>, <<s_lib, s_js>>}}

\* crate types outside KNOWN_CRATE_TYPES
LazyTypes == {s_lib, <<"x">> \o s_dylib}

AllTypes == KnownTypes \cup LazyTypes

RECURSIVE JoinParts(_)
\* the parts of a triple joined by hyphens
JoinParts(parts) ==
    IF Len(parts) = 1 THEN parts[1]
    ELSE parts[1] \o <<"-">> \o JoinParts(Tail(parts))

p_x == <<"x">>

p_wasm32 == <<"w", "a", "s", "m", "3", "2">>

p_apple == <<"a", "p", "p", "l", "e">>

p_msvc == <<"m", "s", "v", "c">>

p_windows_msvc == <<"w", "i", "n", "d", "o", "w", "s", "-", "m", "s", "v", "c">>

\* what the triples are made of
TripleParts == {p_x, p_wasm32, p_apple, p_msvc, p_windows_msvc}

Triples == {JoinParts(ps) : ps \in SeqsUpTo(TripleParts, MaxTripleParts) \ {<<>>}}

t_msvc == JoinParts(<<p_x, p_windows_msvc>>)

t_apple == JoinParts(<<p_x, p_apple, p_x>>)

t_wasm == JoinParts(<<p_wasm32, p_x, p_x>>)

-----------------------------------------------------------------------------
(* Construction: RustcTargetData::new applied to its inputs *)

NoCall == [op |-> "none"]

\* environments with each variable unset, empty or set
ProbeEnvs == [Names -> {None, Some(<<>>), Some(<<" ", "a">>)}]

\* configurations with each layer absent or present
ProbeConfigs ==
    {MkConfig(AllPlat(t), s, AllBuild(b)) :
        t \in BOOLEAN, s \in {<<>>, FullSections}, b \in BOOLEAN}

\* the environment and the configuration hold at most the two extremes
PlainSetup == env = NoEnv /\ config \in {EmptyConfig, FullConfig}

ProbeInit ==
    /\ requested_kind \in RequestedKinds
    /\ env \in ProbeEnvs
    /\ config \in ProbeConfigs
    /\ rtd = NoRtd
    /\ call = NoCall
    /\ ret = None
    /\ execs = NoExecs

PlainProbe == GoodProbe(MixedTable({}), <<cfg_unix.name, s_proc_macro>>)

\* the probe results a construction is tried with
ProbePairs ==
    IF ~PlainSetup
    THEN {[host |-> h, target |-> g] : h \in FewProbes, g \in FewProbes}
    ELSE IF is_host(requested_kind)
    THEN {[host |-> h, target |-> FailedProbe] : h \in RichProbes}
    ELSE {[host |-> h, target |-> PlainProbe] : h \in RichProbes}
            \cup {[host |-> PlainProbe, target |-> g] : g \in RichProbes}

New ==
    /\ call = NoCall
    /\ \E probes \in ProbePairs :
        \E r \in {RustcTargetData_new(config, env, requested_kind, HostTriple, probes)} :
           /\ call' = [op |-> "new", probes |-> probes]
           /\ ret' = Some(r)
           /\ rtd' = IF r.ok THEN Some(Unwrap(r.val)) ELSE NoRtd
    /\ UNCHANGED <<env, config, requested_kind, execs>>

ProbeNext == New

SpecProbe == ProbeInit /\ [][ProbeNext]_vars

-----------------------------------------------------------------------------
(* Construction: properties *)

\* a construction has been applied and has given a RustcTargetData
Constructed == call.op = "new" /\ rtd # NoRtd

\* C2: when a target was requested, also one named as the host triple,
\* env_args gives the empty list for the host and both families, whatever the
\* environment and the configuration hold; the host TargetInfo of the session
\* has both flag lists empty and its probe command carries no extra flag.
C2_HostFlagsEmpty ==
    ~is_host(requested_kind) =>
        /\ \A name \in Names, tc \in TargetCfgs :
              env_args(config, env, requested_kind, HostTriple, tc, Host, name) = <<>>
        /\ Constructed =>
              /\ Unwrap(rtd).host_info.rustflags = <<>>
              /\ Unwrap(rtd).host_info.rustdocflags = <<>>
              /\ Unwrap(rtd).host_info.crate_type_process
                    = <<s_dash, s_crate_name, s_delim, s_print_file_names>>

\* C2 witness: a session for the target named as the host triple, the variable
\* set and every configuration layer set; the target has flags, the host none
C2_Witness ==
    /\ Constructed
    /\ requested_kind = Target(HostTriple)
    /\ env["RUSTFLAGS"] = Some(<<" ", "a">>)
    /\ config = FullConfig
    /\ Unwrap(Unwrap(rtd).target_info).rustflags = <<<<"a">>>>
    /\ Unwrap(rtd).host_info.rustflags = <<>>

\* the error reports the command and what the probe printed, as
\* output_err_info lays them out
Reports(error, probe) ==
    /\ IsSome(error.cmd)
    /\ probe.stdout # <<>> => error.stdout = Some(probe.stdout)
    /\ probe.stderr # <<>> => error.stderr = Some(probe.stderr)

\* C9: a construction whose probe ran and printed malformed output (a naming
\* line missing or without delimiter, the sysroot line missing, a predicate
\* line that does not parse) fails with an error that holds the command line,
\* the captured stdout and the captured stderr.
C9_MalformedFullyReported ==
    (/\ call.op = "new"
     /\ ~Unwrap(ret).ok
     /\ Unwrap(Unwrap(ret).err).what
            # "failed to run rustc to learn about target-specific information") =>
        \/ Reports(Unwrap(Unwrap(ret).err), call.probes.host)
        \/ ~is_host(requested_kind) /\ Reports(Unwrap(Unwrap(ret).err), call.probes.target)

\* the lines of an accepted probe output after the naming lines of the
\* supported crate types and the sysroot line
PredicateLines(ti, probe) ==
    LET n == Cardinality({ct \in Range(KNOWN_CRATE_TYPES) : ti.crate_types[ct] # None})
    IN SubSeq(lines(probe.stdout), n + 2, Len(lines(probe.stdout)))

\* ti holds every predicate the probe printed, in order, but for the bare
\* name proc_macro, and the flag lists were resolved against that list
Filtered(ti, kind, probe) ==
    \E pl \in {PredicateLines(ti, probe)} :
        \E parsed \in {[i \in 1..Len(pl) |-> Cfg_from_str(pl[i])]} :
            /\ \A i \in 1..Len(pl) : parsed[i].ok
            /\ ti.cfg = SelectSeq([i \in 1..Len(pl) |-> Unwrap(parsed[i].val)],
                                  LAMBDA c : c # CfgName(s_proc_macro))
            /\ CfgName(s_proc_macro) \notin Range(ti.cfg)
            /\ \A name \in Names :
                  (IF name = "RUSTFLAGS" THEN ti.rustflags ELSE ti.rustdocflags)
                     = env_args(config, env, requested_kind, HostTriple,
                                Some(ti.cfg), kind, name)

\* C10: for every probe output that construction accepts, the predicate list
\* stored, returned by the cfg queries, used by dep_platform_activated and
\* passed to the second flag resolution holds every parsed predicate in the
\* printed order except the bare name proc_macro; every predicate line of an
\* accepted output parses.
C10_ProcMacroFiltered ==
    Constructed =>
        /\ Filtered(Unwrap(rtd).host_info, Host, call.probes.host)
        /\ ~is_host(requested_kind) =>
              Filtered(Unwrap(Unwrap(rtd).target_info), requested_kind, call.probes.target)
        /\ \A kind \in {Host, requested_kind} :
              /\ RustcTargetData_cfg(Unwrap(rtd), kind) = RustcTargetData_info(Unwrap(rtd), kind).cfg
              /\ ~dep_platform_activated(Unwrap(rtd), HostTriple,
                      Some(PlatformCfg(ExprValue(CfgName(s_proc_macro)))), kind)

\* C10 witness: the host probe printed the bare name proc_macro and then the
\* pair proc_macro="x"; the pair alone is stored
C10_Witness ==
    /\ Constructed
    /\ \E ls \in {lines(call.probes.host.stdout)} :
          /\ Len(ls) >= 2
          /\ ls[Len(ls) - 1] = s_proc_macro
          /\ ls[Len(ls)] = s_proc_macro \o <<"=", DQUOTE, "x", DQUOTE>>
    /\ Unwrap(rtd).host_info.cfg = <<CfgKeyPair(s_proc_macro, <<"x">>)>>

\* stderr holds a line that reports the crate type ct as unsupported or
\* unknown, by its quoted name
Reported(ct, stderr) ==
    \E line \in Range(lines(stderr)) :
        /\ contains(line, s_unsupported) \/ contains(line, s_unknown)
        /\ contains(line, s_crate_type_sp \o <<BACKTICK>> \o ct \o <<BACKTICK>>)

\* the known crate types stderr does not report, in request order
NamedTypes(probe) ==
    SelectSeq(KNOWN_CRATE_TYPES, LAMBDA ct : ~Reported(ct, probe.stderr))

\* stdout holds a delimited naming line for every crate type not reported,
\* then a sysroot line, then predicate lines that parse
WellFormed(probe) ==
    /\ probe.ok
    /\ \E ls \in {lines(probe.stdout)}, n \in {Len(NamedTypes(probe))} :
          /\ Len(ls) >= n + 1
          /\ \A k \in 1..n : contains(ls[k], s_delim)
          /\ \A j \in (n + 2)..Len(ls) : Cfg_from_str(ls[j]).ok

\* pair is line split around its first two delimiters
SplitAround(line, pair) ==
    /\ starts_with(trim(line) \o s_delim, pair[1] \o s_delim \o pair[2] \o s_delim)
    /\ ~contains(pair[1], s_delim)
    /\ ~contains(pair[2], s_delim)

\* ti is what the probe output gives when read in request order: a reported
\* type is not supported and takes no line, the k-th type not reported has
\* the k-th line, the sysroot is the next line, the rest are the predicates
Aligned(ti, probe) ==
    \E ls \in {lines(probe.stdout)}, named \in {NamedTypes(probe)} :
        /\ \A ct \in KnownTypes :
              /\ Reported(ct, probe.stderr) <=> UnsupportedLine(ct) \in Range(lines(probe.stderr))
              /\ Reported(ct, probe.stderr) => ti.crate_types[ct] = None
        /\ DOMAIN ti.crate_types = KnownTypes
        /\ Len(ls) >= Len(named) + 1
        /\ \A k \in 1..Len(named) :
              /\ ti.crate_types[named[k]] # None
              /\ SplitAround(ls[k], Unwrap(ti.crate_types[named[k]]))
        /\ ti.sysroot = <<ls[Len(named) + 1]>>
        /\ PredicateLines(ti, probe) = SubSeq(ls, Len(named) + 2, Len(ls))
        /\ Len(ti.cfg) + Cardinality({j \in (Len(named) + 2)..Len(ls) : ls[j] = s_proc_macro})
              = Len(ls) - Len(named) - 1

\* C11: the six known crate types are read in request order against one
\* cursor over stdout: a type that stderr reports by its quoted name is not
\* supported and takes no line, the k-th type not reported has exactly the
\* k-th line, split around the delimiter; a line of stderr for one type never
\* marks another; the sysroot is the line after the last naming line and the
\* lines left are the predicates.  A well-formed output is accepted.
C11_Aligned ==
    call.op = "new" =>
        /\ (/\ WellFormed(call.probes.host)
            /\ is_host(requested_kind) \/ WellFormed(call.probes.target))
              => Unwrap(ret).ok
        /\ Constructed =>
              /\ Aligned(Unwrap(rtd).host_info, call.probes.host)
              /\ ~is_host(requested_kind) =>
                    Aligned(Unwrap(Unwrap(rtd).target_info), call.probes.target)

\* C11 witness: stderr reports cdylib alone; dylib has the third line and
\* staticlib, the fifth type, the fourth
C11_Witness ==
    /\ Constructed
    /\ call.probes.host = GoodProbe(DistinctTable({s_cdylib}), <<cfg_unix.name>>)
    /\ Unwrap(rtd).host_info.crate_types[s_cdylib] = None
    /\ Unwrap(rtd).host_info.crate_types[s_dylib] = Some(<<s_lib, <<".">> \o s_dylib>>)
    /\ Unwrap(rtd).host_info.crate_types[s_staticlib] = Some(<<s_lib, <<".">> \o s_staticlib>>)
    /\ Unwrap(rtd).host_info.sysroot = <<s_sysroot>>

-----------------------------------------------------------------------------
(* Queries: file_types and filename on a constructed host TargetInfo *)

\* no discover_crate_type process was started or has completed
ZeroExecs == [ct \in AllTypes |-> [run |-> 0, done |-> 0]]

\* the session for the host whose batch probe printed the naming table tb
Session(tb) ==
    Unwrap(RustcTargetData_new(EmptyConfig, NoEnv, Host, HostTriple,
                               [host |-> GoodProbe(tb, <<cfg_unix.name>>),
                                target |-> FailedProbe]).val)

SessionTables == Tables \cup {MixedTable({s_dylib})}

QueryInit ==
    /\ env = NoEnv
    /\ config = EmptyConfig
    /\ requested_kind = Host
    /\ rtd \in {Some(Session(tb)) : tb \in SessionTables}
    /\ call = NoCall
    /\ ret = None
    /\ execs = ZeroExecs

\* the crate-type cache of the host TargetInfo
Cache == Unwrap(rtd).host_info.crate_types

\* TargetInfo::file_types on the host TargetInfo; exec is what the process
\* of discover_crate_type gives if the query runs it
FileTypes(crate_type, flavor, kind, target_triple, exec) ==
    /\ rtd # NoRtd
    /\ \E out \in {file_types(Unwrap(rtd).host_info, crate_type, flavor, kind,
                              target_triple, exec)} :
          /\ out.ran => execs[crate_type].run < MaxExecs
          /\ call' = [op |-> "file_types", crate_type |-> crate_type, flavor |-> flavor,
                      kind |-> kind, target_triple |-> target_triple,
                      exec |-> IF out.ran THEN Some(exec) ELSE None]
          /\ ret' = Some(out.res)
          /\ rtd' = Some([Unwrap(rtd) EXCEPT !.host_info.crate_types = out.crate_types])
          /\ execs' = IF out.ran
                      THEN [execs EXCEPT ![crate_type] =
                               [run |-> @.run + 1,
                                done |-> @.done + (IF out.res.ok THEN 1 ELSE 0)]]
                      ELSE execs
    /\ UNCHANGED <<env, config, requested_kind>>

\* what the process of a query for crate_type may give; a query for a
\* cached type runs none
Outcomes(crate_type) ==
    IF crate_type \in DOMAIN Cache
    THEN {[ok |-> FALSE, stdout |-> <<>>, stderr |-> <<>>]}
    ELSE ExecOutcomes(crate_type)

\* one query with any arguments
PlanQuery ==
    /\ call = NoCall
    /\ \E crate_type \in AllTypes, flavor \in FileFlavors, kind \in TargetKinds,
          target_triple \in Triples :
          \E exec \in Outcomes(crate_type) :
              FileTypes(crate_type, flavor, kind, target_triple, exec)

\* the file names the query's plan is asked for
Stems == {s_my_app}

\* FileType::filename on an entry of the plan a query returned
Filename ==
    /\ call.op = "file_types"
    /\ Unwrap(ret).ok
    /\ Unwrap(Unwrap(ret).val) # None
    /\ \E i \in 1..Len(Unwrap(Unwrap(Unwrap(ret).val))), stem \in Stems :
          /\ call' = [op |-> "filename", query |-> call, index |-> i,
                      ft |-> Unwrap(Unwrap(Unwrap(ret).val))[i], stem |-> stem]
          /\ ret' = Some(filename(Unwrap(Unwrap(Unwrap(ret).val))[i], stem))
    /\ UNCHANGED <<env, config, requested_kind, rtd, execs>>

PlanNext == PlanQuery \/ Filename

SpecPlan == QueryInit /\ [][PlanNext]_vars

\* the arguments of the queries of a session
SessionKinds == {"Bin", "Lib"}

SessionTriples == {t_msvc, t_wasm}

\* any number of queries, one after the other
Query ==
    \E crate_type \in AllTypes, kind \in SessionKinds, target_triple \in SessionTriples :
        \E exec \in Outcomes(crate_type) :
            FileTypes(crate_type, "Normal", kind, target_triple, exec)

Next == Query

Spec == QueryInit /\ [][Next]_vars

-----------------------------------------------------------------------------
(* Queries: properties *)

\* the query last applied, also when a file name was asked of its plan since
LastQuery == IF call.op = "filename" THEN call.query ELSE call

\* the last call was a query and it returned a plan
Answered ==
    /\ call.op = "file_types"
    /\ Unwrap(ret).ok
    /\ Unwrap(Unwrap(ret).val) # None

\* the plan the query returned
Plan == Unwrap(Unwrap(Unwrap(ret).val))

\* the (prefix, suffix) discovered for the crate type of the query
Pair == Unwrap(Cache[LastQuery.crate_type])

Primary == FileType(call.flavor, Pair[2], Pair[1], FALSE)

IsApple == contains(LastQuery.target_triple, s_apple)

IsMsvc == ends_with(LastQuery.target_triple, s_msvc)

\* the kinds and triples whose debug symbols are uplifted
DebugCase ==
    \/ call.kind = "Bin" /\ (IsApple \/ IsMsvc)
    \/ call.kind = "ExampleBin" /\ IsApple

\* the places of the debug-symbol entries: those added to the primary entry
\* with the role DebugInfo
DebugEntries == {i \in 2..Len(Plan) : Plan[i].flavor = "DebugInfo"}

\* no crate type has more than one completed discovery, a completed
\* discovery is in the cache, and no process was run for a known crate type
C5_Counts ==
    \A ct \in AllTypes :
        /\ execs[ct].done <= 1
        /\ execs[ct].done = 1 => ct \in DOMAIN Cache
        /\ ct \in KnownTypes => execs[ct].run = 0

\* a step of a session, seen from the crate type ct
C5_Step(ct) ==
    /\ ct \in DOMAIN Cache => execs'[ct] = execs[ct]
    /\ (ct \in DOMAIN Cache /\ call'.crate_type = ct) =>
          /\ call'.exec = None
          /\ ret' = Some(Ok(IF Cache[ct] = None THEN None
                            ELSE Some(file_plan(Unwrap(Cache[ct])[1], Unwrap(Cache[ct])[2],
                                                ct, call'.flavor, call'.kind,
                                                call'.target_triple))))
    /\ (ct \notin DOMAIN Cache /\ call'.crate_type = ct) =>
          /\ call'.exec # None
          /\ execs'[ct].run = execs[ct].run + 1
          /\ Unwrap(ret').ok <=> execs'[ct].done = execs[ct].done + 1
          /\ Unwrap(ret').ok =>
                ct \in DOMAIN Unwrap(rtd').host_info.crate_types

\* C5: a query for a crate type whose discovery has completed (with a pair or
\* with not supported) runs no process and answers from the cache, so two
\* queries in a row for a type not yet cached, the first completing, run one
\* process in all; no crate type has more than one completed discovery, and
\* the six known crate types never run one.
C5_Memoized == [](C5_Counts) /\ [][\A ct \in AllTypes : C5_Step(ct)]_vars

\* C5 witness: a query for a crate type outside the known ones answered from
\* the cache after the one discovery that filled it
C5_Witness ==
    /\ call.op = "file_types"
    /\ call.crate_type \in LazyTypes
    /\ call.exec = None
    /\ Unwrap(ret).ok
    /\ execs[call.crate_type] = [run |-> 1, done |-> 1]

\* a dynamic-library type named with .dll on a -windows-msvc triple
C6_Case ==
    /\ Answered
    /\ ends_with(call.target_triple, s_windows_msvc)
    /\ ends_with(call.crate_type, s_dylib)
    /\ Pair[2] = s_dll

ImportLib == FileType("Normal", s_dll_lib, Pair[1], FALSE)

\* C6 as stated: for any kind the plan has exactly two entries, the primary
\* one and the .dll.lib one.
C6_TwoEntriesAnyKind == C6_Case => Plan = <<Primary, ImportLib>>

\* C6 amended: the plan begins with the primary entry and the .dll.lib entry
\* (same prefix, role Normal, no hyphen rewriting); these are all its entries
\* unless the kind is one whose debug symbols are uplifted, where one
\* debug-symbol entry follows them.
C6_ImportLibSecond ==
    C6_Case =>
        /\ Len(Plan) >= 2
        /\ SubSeq(Plan, 1, 2) = <<Primary, ImportLib>>
        /\ IF DebugCase
           THEN Len(Plan) = 3 /\ DebugEntries = {3}
           ELSE Len(Plan) = 2

\* C6 witness: cdylib for an ordinary binary kind, three entries
C6_Witness ==
    /\ C6_Case
    /\ call.crate_type = s_cdylib
    /\ call.kind = "Bin"
    /\ Plan = <<Primary, ImportLib, FileType("DebugInfo", s_pdb, Pair[1], TRUE)>>

\* crate type bin named with .js on a wasm32- triple
C7_Case ==
    /\ LastQuery.op = "file_types"
    /\ LastQuery.crate_type = s_bin
    /\ starts_with(LastQuery.target_triple, s_wasm32)
    /\ LastQuery.crate_type \in DOMAIN Cache
    /\ Cache[LastQuery.crate_type] # None
    /\ Pair[2] = s_js

WasmFile == FileType("Auxiliary", s_wasm, Pair[1], TRUE)

s_my_app_js == <<"m", "y", "-", "a", "p", "p", ".", "j", "s">>

s_my_app_wasm == <<"m", "y", "_", "a", "p", "p", ".", "w", "a", "s", "m">>

\* the file name of an entry: the stem between the prefix and the suffix, the
\* hyphens of the stem alone turned to underscores if the entry is marked
C7_Names ==
    call.op = "filename" =>
        /\ \E stem \in {[i \in 1..Len(call.stem) |->
                            IF call.ft.should_replace_hyphens /\ call.stem[i] = "-"
                            THEN "_" ELSE call.stem[i]]} :
              Unwrap(ret) = call.ft.prefix \o stem \o call.ft.suffix
        /\ (C7_Case /\ call.stem = s_my_app /\ call.index = 1) =>
              Unwrap(ret) = Pair[1] \o s_my_app_js
        /\ (C7_Case /\ call.stem = s_my_app /\ call.index = 2) =>
              Unwrap(ret) = Pair[1] \o s_my_app_wasm

\* C7 as stated: the plan has exactly two entries, the primary .js one and
\* the auxiliary .wasm one marked for rewriting; file names as in C7_Names.
C7_TwoEntries ==
    /\ (Answered /\ C7_Case) => Plan = <<Primary, WasmFile>>
    /\ C7_Names

\* C7 amended: the plan begins with the primary .js entry and the auxiliary
\* .wasm entry marked for rewriting; these are all its entries unless the
\* kind and triple are ones whose debug symbols are uplifted, where one
\* debug-symbol entry follows them; file names as in C7_Names.
C7_WasmSecond ==
    /\ (Answered /\ C7_Case) =>
          /\ Len(Plan) >= 2
          /\ SubSeq(Plan, 1, 2) = <<Primary, WasmFile>>
          /\ IF DebugCase
             THEN Len(Plan) = 3 /\ DebugEntries = {3}
             ELSE Len(Plan) = 2
    /\ C7_Names

\* C7 witness: the name of the .wasm file for the stem my-app, the prefix
\* holding a hyphen that stays
C7_Witness ==
    /\ call.op = "filename"
    /\ C7_Case
    /\ call.index = 2
    /\ call.ft = WasmFile
    /\ Pair[1] = <<"a", "-">>
    /\ Unwrap(ret) = <<"a", "-">> \o s_my_app_wasm

DsymEntry == FileType("DebugInfo", s_dSYM, Pair[1], FALSE)

PdbEntry == FileType("DebugInfo", s_pdb, Pair[1], TRUE)

\* where the debug-symbol entries are: one, the last, in the debug case and
\* none otherwise; the primary entry first
C8_Places ==
    /\ DebugEntries = (IF DebugCase THEN {Len(Plan)} ELSE {})
    /\ Plan[1] = Primary
    /\ call.kind \in {"Test", "Lib"} => DebugEntries = {}
    /\ (call.kind = "ExampleBin" /\ ~IsApple) => DebugEntries = {}

\* C8 as stated: the debug-symbol entry is .dSYM without rewriting on the
\* triples that contain -apple- and .pdb with rewriting on those that end
\* with -msvc.
C8_AppleAndMsvcForms ==
    Answered =>
        /\ C8_Places
        /\ \A i \in DebugEntries :
              /\ IsApple => Plan[i] = DsymEntry
              /\ IsMsvc => Plan[i] = PdbEntry

\* C8 amended: a plan holds a debug-symbol entry if and only if the kind is
\* ordinary binary and the triple contains -apple- or ends with -msvc, or the
\* kind is example binary and the triple contains -apple-; there is one at
\* most, it is the last entry and the primary entry stays first; it is .dSYM
\* without rewriting if the triple contains -apple-, and .pdb with rewriting
\* otherwise (the triple then ends with -msvc and holds no -apple-).
C8_DebugEntries ==
    Answered =>
        /\ C8_Places
        /\ \A i \in DebugEntries :
              Plan[i] = (IF IsApple THEN DsymEntry ELSE PdbEntry)

\* C8 witness: an example binary on an Apple triple, .dSYM last
C8_Witness ==
    /\ Answered
    /\ call.kind = "ExampleBin"
    /\ call.target_triple = t_apple
    /\ Len(Plan) = 2
    /\ Plan[2] = DsymEntry

\* the entry a completed discovery adds is what the process printed: not
\* supported if stderr reports the type, else the first line of stdout split
\* around the delimiter
Discovered(ct, exec, value) ==
    IF Reported(ct, exec.stderr)
    THEN value = None
    ELSE /\ value # None
         /\ lines(exec.stdout) # <<>>
         /\ SplitAround(lines(exec.stdout)[1], Unwrap(value))

\* a step of a session, seen from the cache and the rest of the TargetInfo
C12_Step ==
    \E old \in {Cache}, new \in {Unwrap(rtd').host_info.crate_types} :
        /\ \A ct \in DOMAIN old : ct \in DOMAIN new /\ new[ct] = old[ct]
        /\ (DOMAIN new) \ (DOMAIN old) \subseteq {call'.crate_type}
        /\ \A ct \in (DOMAIN new) \ (DOMAIN old) :
              /\ call'.exec # None
              /\ Unwrap(ret').ok
              /\ Discovered(ct, Unwrap(call'.exec), new[ct])
        /\ ~Unwrap(ret').ok =>
              /\ new = old
              /\ call'.crate_type \notin DOMAIN new
              /\ call'.exec # None
        /\ [Unwrap(rtd') EXCEPT !.host_info.crate_types = old] = Unwrap(rtd)
        /\ <<env', config', requested_kind'>> = <<env, config, requested_kind>>

\* C12: over any sequence of queries every cache entry, the six of the
\* construction among them, stays and keeps its value; a query adds at most
\* the entry of the crate type it asked for, and only when its discovery
\* completes, with what the process printed; a query whose discovery fails
\* leaves the cache as it was, so the type is discovered anew by a later
\* query; nothing else of the TargetInfo changes.
C12_CacheFrame == [](KnownTypes \subseteq DOMAIN Cache) /\ [][C12_Step]_vars

\* C12 witness: a second discovery for lib failed like the first and nothing
\* was memoized for it, while the entry of xdylib, discovered before, stays
C12_Witness ==
    /\ call.op = "file_types"
    /\ call.crate_type = s_lib
    /\ ~Unwrap(ret).ok
    /\ execs[s_lib] = [run |-> 2, done |-> 0]
    /\ s_lib \notin DOMAIN Cache
    /\ execs[<<"x">> \o s_dylib].done = 1
    /\ (<<"x">> \o s_dylib) \in DOMAIN Cache

=============================================================================
